---- MODULE Spec2Model ----
(***************************************************************************)
(* A model of advanced-vector/vector.h: RawMemory<T>, the owner of a block *)
(* of raw memory, and Vector<T>, the sequence built on it.                 *)
(*                                                                         *)
(* The heap is a set of blocks; a block is a sequence of slots; a slot is  *)
(* either raw memory (Uninit) or holds a live element, whose value is a    *)
(* user value, the value-initialised value (Default) or the unspecified    *)
(* value of a moved-from object (Moved).  Pointers are <<block, index>>    *)
(* with 0-based indices.  Every element operation that may throw consumes  *)
(* one unit of `fuel`: the operation that finds fuel = 1 throws.           *)
(***************************************************************************)
EXTENDS Integers, Sequences, FiniteSets, TLC

\* ---------------------------------------------------------------- bounds
MaxCap == 4
MaxVal == 1
MaxThrow == 3
NumBlocks == 3
MaxRaw == 2

VecIds == {"a", "b"}
RawIds == {"r1", "r2"}
Blocks == 1..NumBlocks
Vals == 1..MaxVal

\* ------------------------------------------------------------ encodings
nullptr == 0
Uninit == -2
Moved == -1
Default == 0

\* The kinds of behaviour the language leaves undefined: once one happened
\* the program has no defined continuation.
UB == {"double_free", "double_destroy", "uninit_read", "bad_pointer"}

VARIABLES
    T,          \* the element type's capabilities (the traits line 191 reads)
    heap,       \* block -> [alloc, slots]
    vec,        \* the Vector objects: [live, size, data]
    raw,        \* the free-standing RawMemory objects: [live, buffer, capacity]
    obs,        \* the run's setting: [vecs, watch, faulty, hist], fixed by Init
    pushOnly,   \* history: vectors default-constructed and only pushed to since
    bad,        \* history: what the last operation leaked, and undefined behaviour
    last        \* history: the failed or watched operation that produced this state

vars == <<T, heap, vec, raw, obs, pushOnly, bad, last>>

\* ------------------------------------------------------- the world record
\* The state an operation works on, threaded through its steps.

Flag(w, f) == [w EXCEPT !.bad = @ \cup {f}]

Valid(w, b, i) ==
    /\ b \in Blocks
    /\ w.heap[b].alloc
    /\ i >= 0
    /\ i < Len(w.heap[b].slots)

Read(w, b, i) == IF Valid(w, b, i) THEN w.heap[b].slots[i + 1] ELSE Uninit

Write(w, b, i, x) == [w EXCEPT !.heap[b].slots[i + 1] = x]

\* One element operation that may throw: the fuel-th such operation throws.
Tick(w, throwable) ==
    IF ~throwable \/ w.fuel = 0 THEN w
    ELSE IF w.fuel = 1 THEN [w EXCEPT !.exc = TRUE, !.fuel = 0]
    ELSE [w EXCEPT !.fuel = @ - 1]

\* operator new: the lowest free block stands for the address returned.
FreeBlocks(w) == {b \in Blocks : ~w.heap[b].alloc}

MinOf(S) == CHOOSE x \in S : \A y \in S : x <= y

AllocPtr(w, n) == IF n = 0 \/ FreeBlocks(w) = {} THEN nullptr ELSE MinOf(FreeBlocks(w))

Allocate(w, n) ==
    IF n = 0 THEN w
    ELSE IF w.oom \/ FreeBlocks(w) = {} THEN [w EXCEPT !.exc = TRUE]
    ELSE [w EXCEPT !.heap[AllocPtr(w, n)] =
                      [alloc |-> TRUE, slots |-> [i \in 1..n |-> Uninit]]]

LiveSlots(blk) == {i \in 1..Len(blk.slots) : blk.slots[i] # Uninit}

Deallocate(w, b) ==
    IF b = nullptr THEN w
    ELSE IF ~w.heap[b].alloc THEN Flag(w, "double_free")
    ELSE LET w1 == IF LiveSlots(w.heap[b]) # {} THEN Flag(w, "leak") ELSE w
         IN  [w1 EXCEPT !.heap[b] = [alloc |-> FALSE, slots |-> << >>]]

\* new (p) T(x): construct an element with value x in the slot <<b, i>>.
construct_at(w, b, i, x, throwable) ==
    IF w.exc THEN w
    ELSE LET w1 == Tick(w, throwable)
         IN  IF w1.exc THEN w1
             ELSE IF ~Valid(w1, b, i) THEN Flag(w1, "bad_pointer")
             ELSE LET w2 == IF Read(w1, b, i) # Uninit THEN Flag(w1, "leak") ELSE w1
                  IN  [Write(w2, b, i, x) EXCEPT !.nctor = @ + 1]

destroy_at(w, b, i) ==
    IF ~Valid(w, b, i) THEN Flag(w, "bad_pointer")
    ELSE IF Read(w, b, i) = Uninit THEN Flag(w, "double_destroy")
    ELSE [Write(w, b, i, Uninit) EXCEPT !.ndtor = @ + 1]

RECURSIVE destroy_n(_, _, _, _)
destroy_n(w, b, i, n) ==
    IF n <= 0 THEN w ELSE destroy_n(destroy_at(w, b, i), b, i + 1, n - 1)

\* T(const T&) from the slot <<sb, si>> into the raw slot <<db, di>>.
CopyConstruct(w, db, di, sb, si) ==
    IF w.exc THEN w
    ELSE IF Read(w, sb, si) = Uninit THEN Flag(w, "uninit_read")
    ELSE construct_at(w, db, di, Read(w, sb, si), TRUE)

\* T(T&&): a type with no move constructor of its own copies instead.
MoveConstruct(w, db, di, sb, si) ==
    IF w.exc THEN w
    ELSE IF Read(w, sb, si) = Uninit THEN Flag(w, "uninit_read")
    ELSE LET w1 == construct_at(w, db, di, Read(w, sb, si), ~T.nothrow_move)
         IN  IF w1.exc \/ ~Valid(w1, sb, si) THEN w1 ELSE Write(w1, sb, si, Moved)

\* a = b on two live elements.
CopyAssign(w, db, di, sb, si) ==
    IF w.exc THEN w
    ELSE IF Read(w, sb, si) = Uninit \/ Read(w, db, di) = Uninit
         THEN Flag(w, "uninit_read")
    ELSE LET w1 == Tick(w, TRUE)
         IN  IF w1.exc THEN w1 ELSE Write(w1, db, di, Read(w1, sb, si))

\* a = std::move(b) on two live elements.
MoveAssign(w, db, di, sb, si) ==
    IF w.exc THEN w
    ELSE IF Read(w, sb, si) = Uninit \/ Read(w, db, di) = Uninit
         THEN Flag(w, "uninit_read")
    ELSE LET w1 == Tick(w, ~T.nothrow_move)
         IN  IF w1.exc THEN w1
             ELSE Write(Write(w1, db, di, Read(w1, sb, si)), sb, si, Moved)

\* ------------------------------------------------ <memory> and <algorithm>
\* Each uninitialized_* algorithm destroys what it constructed when an
\* element constructor throws, and rethrows.

RECURSIVE UCopy(_, _, _, _, _, _, _)
UCopy(w, sb, so, db, do, i, n) ==
    IF i >= n THEN w
    ELSE LET w1 == CopyConstruct(w, db, do + i, sb, so + i)
         IN  IF w1.exc THEN destroy_n(w1, db, do, i)
             ELSE UCopy(w1, sb, so, db, do, i + 1, n)

uninitialized_copy_n(w, sb, so, n, db, do) == UCopy(w, sb, so, db, do, 0, n)

RECURSIVE UMove(_, _, _, _, _, _, _)
UMove(w, sb, so, db, do, i, n) ==
    IF i >= n THEN w
    ELSE LET w1 == MoveConstruct(w, db, do + i, sb, so + i)
         IN  IF w1.exc THEN destroy_n(w1, db, do, i)
             ELSE UMove(w1, sb, so, db, do, i + 1, n)

uninitialized_move_n(w, sb, so, n, db, do) == UMove(w, sb, so, db, do, 0, n)

RECURSIVE UValue(_, _, _, _, _)
UValue(w, b, o, i, n) ==
    IF i >= n THEN w
    ELSE LET w1 == construct_at(w, b, o + i, Default, TRUE)
         IN  IF w1.exc THEN destroy_n(w1, b, o, i)
             ELSE UValue(w1, b, o, i + 1, n)

uninitialized_value_construct_n(w, b, o, n) == UValue(w, b, o, 0, n)

\* std::move(first, last, d_first) within block b: forward move-assignment.
RECURSIVE std_move(_, _, _, _, _)
std_move(w, b, first, lst, dest) ==
    IF first >= lst THEN w
    ELSE std_move(MoveAssign(w, b, dest, b, first), b, first + 1, lst, dest + 1)

\* The shift done front to back, as std::move would do it.
std_move_backward_Forward(w, b, first, lst, dlast) ==
    std_move(w, b, first, lst, dlast - (lst - first))

\* std::move_backward(first, last, d_last) within block b.
RECURSIVE std_move_backward(_, _, _, _, _)
std_move_backward(w, b, first, lst, dlast) ==
    IF first >= lst THEN w
    ELSE std_move_backward(MoveAssign(w, b, dlast - 1, b, lst - 1),
                           b, first, lst - 1, dlast - 1)

\* ------------------------------------------------------------- RawMemory
RawMemory_Default == [buffer |-> nullptr, capacity |-> 0]

\* explicit RawMemory(size_t capacity): the record, given the world before.
RawMemory_Capacity(w, n) == [buffer |-> AllocPtr(w, n), capacity |-> n]

\* RawMemory(RawMemory&& other): <<this, other>> afterwards.
RawMemory_Move(other) ==
    << [buffer |-> other.buffer, capacity |-> other.capacity],
       [other EXCEPT !.buffer = nullptr] >>

\* operator=(RawMemory&& rhs), for &rhs != this: <<this, rhs>> afterwards
\* (the release of this->buffer_ is the world step of the action).
RawMemory_MoveAssign(this, rhs) ==
    << [buffer |-> rhs.buffer, capacity |-> rhs.capacity], rhs >>

\* Swap(RawMemory& other): <<this, other>> afterwards.
RawMemory_Swap(this, other) ==
    << [buffer |-> other.buffer, capacity |-> other.capacity],
       [buffer |-> this.buffer, capacity |-> this.capacity] >>

\* ---------------------------------------------------------------- Vector
NoVector == [live |-> FALSE, size |-> 0, data |-> RawMemory_Default]

Size(w, v) == w.vec[v].size
Capacity(w, v) == w.vec[v].data.capacity
GetAddress(w, v) == w.vec[v].data.buffer

SetRet(w, b, i) == [w EXCEPT !.ret = <<b, i>>]

\* Swap(Vector& other)
Vector_Swap(w, v, o) ==
    LET d == RawMemory_Swap(w.vec[v].data, w.vec[o].data)
        sv == w.vec[v].size
        so == w.vec[o].size
    IN  IF v = o THEN w
        ELSE [w EXCEPT !.vec[v].data = d[1], !.vec[v].size = so,
                       !.vec[o].data = d[2], !.vec[o].size = sv]

\* Vector() = default
Vector_Default(w, v) == [w EXCEPT !.vec[v] = [NoVector EXCEPT !.live = TRUE]]

\* Vector(size_t size)
Vector_Size(w, v, n) ==
    LET d  == RawMemory_Capacity(w, n)
        w1 == Allocate(w, n)
        w2 == uninitialized_value_construct_n(w1, d.buffer, 0, n)
    IN  IF w1.exc THEN w1
        ELSE IF w2.exc THEN Deallocate(w2, d.buffer)
        ELSE [w2 EXCEPT !.vec[v] = [live |-> TRUE, size |-> n, data |-> d]]

\* A copy that shares other's storage instead of allocating its own.
Vector_Copy_Shallow(w, v, o) ==
    [w EXCEPT !.vec[v] = [live |-> TRUE, size |-> Size(w, o), data |-> w.vec[o].data]]

\* Vector(const Vector& other)
Vector_Copy(w, v, o) ==
    LET n  == Size(w, o)
        d  == RawMemory_Capacity(w, n)
        w1 == Allocate(w, n)
        w2 == uninitialized_copy_n(w1, GetAddress(w, o), 0, n, d.buffer, 0)
    IN  IF w1.exc THEN w1
        ELSE IF w2.exc THEN Deallocate(w2, d.buffer)
        ELSE [w2 EXCEPT !.vec[v] = [live |-> TRUE, size |-> n, data |-> d]]

\* A move that takes other's storage and size and leaves them in other too.
Vector_Move_NoSwap(w, v, o) ==
    [w EXCEPT !.vec[v] = [live |-> TRUE, size |-> Size(w, o), data |-> w.vec[o].data]]

\* Vector(Vector&& other) noexcept
Vector_Move(w, v, o) == Vector_Swap(Vector_Default(w, v), v, o)

\* A destructor that releases the block without destroying the elements.
Vector_Dtor_NoDestroy(w, v) ==
    [Deallocate(w, GetAddress(w, v)) EXCEPT !.vec[v] = NoVector]

\* ~Vector(), then ~RawMemory() of data_
Vector_Dtor(w, v) ==
    LET w1 == destroy_n(w, GetAddress(w, v), 0, Size(w, v))
        w2 == Deallocate(w1, GetAddress(w, v))
    IN  [w2 EXCEPT !.vec[v] = NoVector]

\* The element-wise loop of operator=(const Vector&), lines 122-124.
RECURSIVE AssignPrefix(_, _, _, _, _)
AssignPrefix(w, db, sb, i, n) ==
    IF i >= n THEN w
    ELSE AssignPrefix(CopyAssign(w, db, i, sb, i), db, sb, i + 1, n)

Min(x, y) == IF x <= y THEN x ELSE y

\* A copy assignment that copies and swaps whatever the capacity.
Vector_CopyAssign_CopySwap(w, v, r) ==
    IF v = r THEN w
    ELSE
        LET w1 == Vector_Copy(w, "copy", r)
            w2 == Vector_Swap(w1, v, "copy")
            w3 == Vector_Dtor(w2, "copy")
        IN  IF w1.exc THEN w1 ELSE [w3 EXCEPT !.vec[v].size = Size(w, r)]

\* A copy assignment that writes the size before it copies the elements.
Vector_CopyAssign_SizeFirst(w, v, r) ==
    IF v = r THEN w
    ELSE IF Size(w, r) > Capacity(w, v) THEN
        LET w1 == Vector_Copy(w, "copy", r)
            w2 == Vector_Swap(w1, v, "copy")
            w3 == Vector_Dtor(w2, "copy")
        IN  IF w1.exc THEN w1 ELSE [w3 EXCEPT !.vec[v].size = Size(w, r)]
    ELSE
        LET sz == Size(w, v)
            rs == Size(w, r)
            i  == Min(sz, rs)
            w1 == AssignPrefix(w, GetAddress(w, v), GetAddress(w, r), 0, i)
            w2 == IF rs < sz
                  THEN destroy_n(w1, GetAddress(w, v), i, sz - rs)
                  ELSE uninitialized_copy_n(w1, GetAddress(w, r), i, rs - sz,
                                            GetAddress(w, v), i)
        IN  IF w1.exc THEN [w1 EXCEPT !.vec[v].size = rs]
            ELSE [w2 EXCEPT !.vec[v].size = rs]

\* operator=(const Vector& rhs); the temporary of line 117 is vec["copy"].
Vector_CopyAssign(w, v, r) ==
    IF v = r THEN w
    ELSE IF Size(w, r) > Capacity(w, v) THEN
        LET w1 == Vector_Copy(w, "copy", r)
            w2 == Vector_Swap(w1, v, "copy")
            w3 == Vector_Dtor(w2, "copy")
        IN  IF w1.exc THEN w1 ELSE [w3 EXCEPT !.vec[v].size = Size(w, r)]
    ELSE
        LET sz == Size(w, v)
            rs == Size(w, r)
            i  == Min(sz, rs)
            w1 == AssignPrefix(w, GetAddress(w, v), GetAddress(w, r), 0, i)
            w2 == IF rs < sz
                  THEN destroy_n(w1, GetAddress(w, v), i, sz - rs)
                  ELSE uninitialized_copy_n(w1, GetAddress(w, r), i, rs - sz,
                                            GetAddress(w, v), i)
        IN  IF w1.exc THEN w1
            ELSE IF w2.exc THEN w2
            ELSE [w2 EXCEPT !.vec[v].size = rs]

\* A move assignment that destroys this vector's elements, takes rhs's
\* storage and leaves rhs empty.
Vector_MoveAssign_Steal(w, v, r) ==
    IF v = r THEN w
    ELSE [Vector_Dtor(w, v) EXCEPT
             !.vec[v] = [live |-> TRUE, size |-> Size(w, r), data |-> w.vec[r].data],
             !.vec[r] = [NoVector EXCEPT !.live = TRUE]]

\* operator=(Vector&& rhs) noexcept
Vector_MoveAssign(w, v, r) == Vector_Swap(w, v, r)

\* A relocation that moves whatever the element type.
RelocateByMove_Always == TRUE

\* The relocation rule of lines 191 and 289.
RelocateByMove == T.nothrow_move \/ ~T.copyable

\* A FillTmpData that moves whatever the element type, unlike line 289.
FillTmpData_Move(w, v, nb) ==
    uninitialized_move_n(w, GetAddress(w, v), 0, Size(w, v), nb, 0)

\* FillTmpData(RawMemory<T>& data), data's block being nb.
FillTmpData(w, v, nb) ==
    IF RelocateByMove
    THEN uninitialized_move_n(w, GetAddress(w, v), 0, Size(w, v), nb, 0)
    ELSE uninitialized_copy_n(w, GetAddress(w, v), 0, Size(w, v), nb, 0)

\* A Reserve that releases the old block without destroying its elements.
Reserve_NoDestroy(w, v, n) ==
    IF Capacity(w, v) >= n THEN w
    ELSE
        LET nd == RawMemory_Capacity(w, n)
            w1 == Allocate(w, n)
            w2 == FillTmpData(w1, v, nd.buffer)
            sw == RawMemory_Swap(w.vec[v].data, nd)
            w3 == [w2 EXCEPT !.vec[v].data = sw[1]]
        IN  IF w1.exc THEN w1
            ELSE IF w2.exc THEN Deallocate(w2, nd.buffer)
            ELSE Deallocate(w3, sw[2].buffer)

\* Reserve(size_t new_capacity)
Reserve(w, v, n) ==
    IF Capacity(w, v) >= n THEN w
    ELSE
        LET nd == RawMemory_Capacity(w, n)
            w1 == Allocate(w, n)
            w2 == FillTmpData(w1, v, nd.buffer)
            sw == RawMemory_Swap(w.vec[v].data, nd)
            w3 == [w2 EXCEPT !.vec[v].data = sw[1]]
            w4 == destroy_n(w3, sw[2].buffer, 0, Size(w, v))
        IN  IF w1.exc THEN w1
            ELSE IF w2.exc THEN Deallocate(w2, nd.buffer)
            ELSE Deallocate(w4, sw[2].buffer)

\* A Resize that shrinks by setting the size alone.
Resize_KeepTail(w, v, n) ==
    IF Size(w, v) >= n THEN [w EXCEPT !.vec[v].size = n]
    ELSE
        LET w1 == Reserve(w, v, n)
            w2 == uninitialized_value_construct_n(w1, GetAddress(w1, v),
                                                  Size(w, v), n - Size(w, v))
        IN  IF w1.exc THEN w1
            ELSE IF w2.exc THEN w2
            ELSE [w2 EXCEPT !.vec[v].size = n]

\* A Resize that writes the new size before it reserves the storage.
Resize_SizeFirst(w, v, n) ==
    IF Size(w, v) >= n THEN
        [destroy_n(w, GetAddress(w, v), n, Size(w, v) - n) EXCEPT !.vec[v].size = n]
    ELSE
        LET w1 == Reserve(w, v, n)
            w2 == uninitialized_value_construct_n(w1, GetAddress(w1, v),
                                                  Size(w, v), n - Size(w, v))
        IN  IF w1.exc THEN [w1 EXCEPT !.vec[v].size = n]
            ELSE IF w2.exc THEN w2
            ELSE [w2 EXCEPT !.vec[v].size = n]

\* Resize(size_t new_size)
Resize(w, v, n) ==
    IF Size(w, v) >= n THEN
        [destroy_n(w, GetAddress(w, v), n, Size(w, v) - n) EXCEPT !.vec[v].size = n]
    ELSE
        LET w1 == Reserve(w, v, n)
            w2 == uninitialized_value_construct_n(w1, GetAddress(w1, v),
                                                  Size(w, v), n - Size(w, v))
        IN  IF w1.exc THEN w1
            ELSE IF w2.exc THEN w2
            ELSE [w2 EXCEPT !.vec[v].size = n]

\* The arguments args... of Emplace, forwarded by reference down to T's
\* constructor: an object apart from every vector, holding the value x, or
\* a reference to the slot <<b, i>> of a vector's block.
Apart(x) == [ref |-> FALSE, val |-> x, at |-> <<nullptr, 0>>]

Alias(b, i) == [ref |-> TRUE, val |-> Default, at |-> <<b, i>>]

\* The value T's constructor reads through the arguments in world w.
Deref(w, x) == IF x.ref THEN Read(w, x.at[1], x.at[2]) ELSE x.val

\* An EasyEmplace that builds the element from the arguments in place,
\* after the shift, with no temporary.
EasyEmplace_NoTemp(w, v, p, x, thr) ==
    LET b  == GetAddress(w, v)
        sz == Size(w, v)
    IN  IF p # sz THEN
            LET w2 == MoveConstruct(w, b, sz, b, sz - 1)
                w3 == std_move_backward(w2, b, p, sz - 1, sz)
                w4 == Tick(w3, thr)
                w5 == IF w4.exc THEN w4 ELSE Write(w4, b, p, Deref(w4, x))
            IN  IF w5.exc THEN w5
                ELSE SetRet([w5 EXCEPT !.vec[v].size = sz + 1], b, p)
        ELSE
            LET w1 == construct_at(w, b, sz, Deref(w, x), thr)
            IN  IF w1.exc THEN w1
                ELSE SetRet([w1 EXCEPT !.vec[v].size = sz + 1], b, p)

\* EasyEmplace(const_iterator pos, Args&&... args), pos = begin() + p.
\* x is the arguments, thr whether the constructor they select may throw.
EasyEmplace(w, v, p, x, thr) ==
    LET b  == GetAddress(w, v)
        sz == Size(w, v)
    IN  IF p # sz THEN
            LET tmp == Deref(w, x)
                w1 == Tick(w, thr)                                \* T tmp(args...)
                w2 == MoveConstruct(w1, b, sz, b, sz - 1)         \* new (end()) T(...)
                w3 == std_move_backward(w2, b, p, sz - 1, sz)
                w4 == Tick(w3, ~T.nothrow_move)                   \* *pos = std::move(tmp)
                w5 == IF w4.exc THEN w4 ELSE Write(w4, b, p, tmp)
                w6 == [w5 EXCEPT !.nctor = @ + 1, !.ndtor = @ + 1]  \* tmp's lifetime
            IN  IF w1.exc THEN w1
                ELSE IF w6.exc THEN w6
                ELSE SetRet([w6 EXCEPT !.vec[v].size = sz + 1], b, p)
        ELSE
            LET w1 == construct_at(w, b, sz, Deref(w, x), thr)
            IN  IF w1.exc THEN w1
                ELSE SetRet([w1 EXCEPT !.vec[v].size = sz + 1], b, p)

\* The two relocations of lines 289-296 into the block nb.
RelocateAround(w, v, p, nb) ==
    LET b  == GetAddress(w, v)
        sz == Size(w, v)
    IN  IF RelocateByMove
        THEN uninitialized_move_n(uninitialized_move_n(w, b, 0, p, nb, 0),
                                  b, p, sz - p, nb, p + 1)
        ELSE LET w1 == uninitialized_copy_n(w, b, 0, p, nb, 0)
             IN  IF w1.exc THEN w1
                 ELSE uninitialized_copy_n(w1, b, p, sz - p, nb, p + 1)

\* Growth by one slot instead of doubling.
GrownCapacity_PlusOne(sz) == sz + 1

\* The capacity line 287 asks for.
GrownCapacity(sz) == IF sz = 0 THEN 1 ELSE sz * 2

\* RealocationEmplace(const_iterator pos, Args&&... args), pos = begin() + p.
RealocationEmplace(w, v, p, x, thr) ==
    LET sz == Size(w, v)
        nd == RawMemory_Capacity(w, GrownCapacity(sz))
        w1 == Allocate(w, GrownCapacity(sz))
        w2 == construct_at(w1, nd.buffer, p, Deref(w1, x), thr)
        w3 == RelocateAround(w2, v, p, nd.buffer)
        sw == RawMemory_Swap(w.vec[v].data, nd)
        w4 == [w3 EXCEPT !.vec[v].data = sw[1]]
        w5 == destroy_n(w4, sw[2].buffer, 0, sz)
        w6 == [w5 EXCEPT !.vec[v].size = sz + 1]
    IN  IF w1.exc THEN w1
        ELSE IF w3.exc THEN Deallocate(w3, nd.buffer)
        ELSE SetRet(Deallocate(w6, sw[2].buffer), sw[1].buffer, p)

\* Emplace(const_iterator pos, Args&&... args)
Emplace(w, v, p, x, thr) ==
    IF Size(w, v) < Capacity(w, v)
    THEN EasyEmplace(w, v, p, x, thr)
    ELSE RealocationEmplace(w, v, p, x, thr)

\* An Erase that drops the last element instead of the one at pos.
Erase_NoShift(w, v, p) ==
    LET b  == GetAddress(w, v)
        sz == Size(w, v)
    IN  SetRet([destroy_at(w, b, sz - 1) EXCEPT !.vec[v].size = sz - 1], b, p)

\* Erase(const_iterator pos), pos = begin() + p.
Erase(w, v, p) ==
    LET b  == GetAddress(w, v)
        sz == Size(w, v)
        w1 == std_move(w, b, p + 1, sz, p)
        w2 == destroy_at(w1, b, sz - 1)
    IN  IF w1.exc THEN w1
        ELSE SetRet([w2 EXCEPT !.vec[v].size = sz - 1], b, p)

\* A PopBack that forgets the element's destructor.
PopBack_NoDestroy(w, v) == [w EXCEPT !.vec[v].size = @ - 1]

\* PopBack()
PopBack(w, v) ==
    [destroy_at(w, GetAddress(w, v), Size(w, v) - 1) EXCEPT !.vec[v].size = @ - 1]

\* ------------------------------------------------------------ the machine
\* What can go wrong in one call: the fuel-th throwing element operation
\* throws (0: none does), or the allocator has no memory left.
NoFault == [fuel |-> 0, oom |-> FALSE]

Faults ==
    {[fuel |-> k, oom |-> FALSE] : k \in 0..MaxThrow} \cup {[fuel |-> 0, oom |-> TRUE]}

NoRet == <<nullptr, 0>>

NoOp == [op |-> "none", v |-> "", o |-> "", n |-> 0, x |-> 0, failed |-> FALSE,
         ret |-> NoRet, nctor |-> 0, ndtor |-> 0]

World(f) ==
    [heap  |-> heap,
     vec   |-> [u \in VecIds \cup {"copy"} |-> IF u \in VecIds THEN vec[u] ELSE NoVector],
     fuel  |-> f.fuel,
     oom   |-> f.oom,
     exc   |-> FALSE,
     bad   |-> bad \cap UB,
     nctor |-> 0,
     ndtor |-> 0,
     ret   |-> NoRet]

Defined == bad \cap UB = {}

\* Whether the fault the call was given has struck: a call that the fault
\* never reaches is the call without a fault.
Struck(w) == IF w.exc THEN TRUE ELSE w.fuel = 0 /\ ~w.oom

\* The bound on the model: the live vectors own at most MaxCap slots together.
TotalCapacity(vs) ==
    LET RECURSIVE Sum(_)
        Sum(S) == IF S = {} THEN 0
                  ELSE LET u == CHOOSE u \in S : TRUE
                       IN  vs[u].data.capacity + Sum(S \ {u})
    IN  Sum(DOMAIN vs)

\* The names of the operations, as `last` and `obs` use them.
Inserts == {"PushBack", "EmplaceBack", "Emplace", "Insert"}

OpNames ==
    Inserts \cup {"Vector", "Vector(n)", "Vector(const&)", "Vector(&&)",
                  "operator=(const&)", "operator=(&&)", "Swap", "Reserve",
                  "Resize", "Erase", "PopBack", "~Vector"}

\* The operations that take a second vector; a run that watches one of
\* them records the others as "binary", and all further operations as "none".
Binary == {"Vector(const&)", "Vector(&&)", "operator=(const&)", "operator=(&&)", "Swap"}

RawOpNames ==
    {"RawMemory", "RawMemory(n)", "RawMemory(&&)", "RawMemory::operator=(&&)",
     "RawMemory::Swap", "~RawMemory"}

\* The insertions whose argument is a reference to an element of the
\* vector itself: v.PushBack(v[i]), v.Insert(v.begin() + p, v[i]).
SelfInserts == {"PushBack(v[i])", "Insert(v[i])"}

\* Whether the run lets the operation op meet the fault f.
May(op, f) == IF f = NoFault THEN TRUE ELSE op \in obs.faulty

\* PushBack, EmplaceBack and Insert are calls of Emplace (lines 223, 228,
\* 251, 254) and are recorded as such.
Recorded(op) ==
    IF op \in Inserts THEN "Emplace"
    ELSE IF op \in SelfInserts THEN "Emplace(v[i])"
    ELSE op

\* The step of a Vector operation op on v (with other operand o, size or
\* position n, value x) that leaves the world w.
Commit(w, op, v, o, n, x) ==
    /\ Struck(w)
    /\ TotalCapacity(w.vec) <= MaxCap
    /\ heap' = w.heap
    /\ vec' = [u \in VecIds |-> w.vec[u]]
    /\ bad' = w.bad
    /\ last' = IF w.exc
               THEN [NoOp EXCEPT !.op = Recorded(op), !.v = v, !.o = o, !.failed = TRUE]
               ELSE IF Recorded(op) \notin obs.watch
               THEN [NoOp EXCEPT !.op = IF op \in Binary /\ obs.watch \cap Binary # {}
                                        THEN "binary" ELSE "none"]
               ELSE [op |-> Recorded(op), v |-> v, o |-> o, n |-> n, x |-> x,
                     failed |-> FALSE, ret |-> w.ret,
                     nctor |-> w.nctor, ndtor |-> w.ndtor]
    /\ pushOnly' = IF ~obs.hist THEN pushOnly
                   ELSE IF op = "Vector" THEN pushOnly \cup {v}
                   ELSE IF op = "PushBack" THEN pushOnly
                   ELSE pushOnly \ {v, o}
    /\ UNCHANGED <<T, raw, obs>>

\* The state before any object is constructed, for a run over the element
\* types `types` of a program that uses the vectors `vecs`; the run lets the
\* operations in `faulty` fail, records every failed call and the successful
\* calls of the operations in `watch`, and keeps the push history iff `hist`.
Types == [nothrow_move : BOOLEAN, copyable : BOOLEAN]

InitFor(types, vecs, watch, faulty, hist) ==
    /\ T \in types
    /\ heap = [b \in Blocks |-> [alloc |-> FALSE, slots |-> << >>]]
    /\ vec = [v \in VecIds |-> NoVector]
    /\ raw = [r \in RawIds |-> [live |-> FALSE, m |-> [buffer |-> nullptr, capacity |-> 0]]]
    /\ obs = [vecs |-> vecs, watch |-> watch, faulty |-> faulty, hist |-> hist]
    /\ pushOnly = {}
    /\ bad = {}
    /\ last = NoOp

Init == InitFor(Types, VecIds, {}, OpNames, FALSE)

\* Whether the constructor an argument selects may throw: T(const T&) may,
\* T(T&&) may unless it is noexcept.
ArgThrows(byMove) == IF byMove THEN ~T.nothrow_move ELSE TRUE

\* The overloads of PushBack and Insert that T admits, by whether they take
\* an rvalue (lines 221-224, 250-255).
Overloads == IF T.copyable THEN BOOLEAN ELSE {TRUE}

\* Whether the construction of the argument of PushBack or Insert can be
\* the operation that the fault f makes throw.
Thrown(f) == IF f = NoFault THEN {FALSE} ELSE {ArgThrows(byMove) : byMove \in Overloads}

\* The capacity v can have while the other vectors keep theirs.
Room(v) == MaxCap - TotalCapacity([u \in VecIds \ {v} |-> vec[u]])

\* ---------------------------------------------------------- Vector actions
DoDefault(v) ==
    /\ Defined /\ ~vec[v].live
    /\ Commit(Vector_Default(World(NoFault), v), "Vector", v, v, 0, 0)

DoSize(v, n, f) ==
    /\ May("Vector(n)", f) /\ Defined /\ ~vec[v].live
    /\ Commit(Vector_Size(World(f), v, n), "Vector(n)", v, v, n, 0)

DoCopy(v, o, f) ==
    /\ May("Vector(const&)", f) /\ Defined /\ ~vec[v].live /\ vec[o].live /\ T.copyable
    /\ Commit(Vector_Copy(World(f), v, o), "Vector(const&)", v, o, 0, 0)

DoMove(v, o) ==
    /\ Defined /\ ~vec[v].live /\ vec[o].live
    /\ Commit(Vector_Move(World(NoFault), v, o), "Vector(&&)", v, o, 0, 0)

DoCopyAssign(v, r, f) ==
    /\ May("operator=(const&)", f) /\ Defined /\ vec[v].live /\ vec[r].live /\ T.copyable
    /\ Commit(Vector_CopyAssign(World(f), v, r), "operator=(const&)", v, r, 0, 0)

DoMoveAssign(v, r) ==
    /\ Defined /\ vec[v].live /\ vec[r].live
    /\ Commit(Vector_MoveAssign(World(NoFault), v, r), "operator=(&&)", v, r, 0, 0)

DoSwap(v, o) ==
    /\ Defined /\ vec[v].live /\ vec[o].live
    /\ Commit(Vector_Swap(World(NoFault), v, o), "Swap", v, o, 0, 0)

DoReserve(v, n, f) ==
    /\ May("Reserve", f) /\ Defined /\ vec[v].live
    /\ Commit(Reserve(World(f), v, n), "Reserve", v, v, n, 0)

DoResize(v, n, f) ==
    /\ May("Resize", f) /\ Defined /\ vec[v].live
    /\ Commit(Resize(World(f), v, n), "Resize", v, v, n, 0)

\* The bound on the model: no block larger than MaxCap is asked for.
CanGrow(v) ==
    IF vec[v].size < vec[v].data.capacity THEN TRUE
    ELSE GrownCapacity(vec[v].size) <= Room(v)

DoPushBack(v, x, thr, f) ==
    /\ May("PushBack", f) /\ Defined /\ vec[v].live /\ CanGrow(v)
    /\ Commit(Emplace(World(f), v, vec[v].size, Apart(x), thr),
              "PushBack", v, v, vec[v].size, x)

DoEmplaceBack(v, x, f) ==
    /\ May("EmplaceBack", f) /\ Defined /\ vec[v].live /\ CanGrow(v)
    /\ Commit(Emplace(World(f), v, vec[v].size, Apart(x), TRUE),
              "EmplaceBack", v, v, vec[v].size, x)

DoEmplace(v, p, x, f) ==
    /\ May("Emplace", f) /\ Defined /\ vec[v].live /\ CanGrow(v)
    /\ p <= vec[v].size
    /\ Commit(Emplace(World(f), v, p, Apart(x), TRUE), "Emplace", v, v, p, x)

DoInsert(v, p, x, thr, f) ==
    /\ May("Insert", f) /\ Defined /\ vec[v].live /\ CanGrow(v)
    /\ p <= vec[v].size
    /\ Commit(Emplace(World(f), v, p, Apart(x), thr), "Insert", v, v, p, x)

\* v.PushBack(v[i]): Type&& binds const T&, the element is copy-constructed.
DoPushBackSelf(v, i) ==
    /\ Defined /\ vec[v].live /\ CanGrow(v) /\ T.copyable
    /\ i < vec[v].size
    /\ Commit(Emplace(World(NoFault), v, vec[v].size,
                      Alias(vec[v].data.buffer, i), TRUE),
              "PushBack(v[i])", v, v, vec[v].size, i)

\* v.Insert(v.begin() + p, v[i]): the overload of lines 250-252.
DoInsertSelf(v, p, i) ==
    /\ Defined /\ vec[v].live /\ CanGrow(v) /\ T.copyable
    /\ p <= vec[v].size /\ i < vec[v].size
    /\ Commit(Emplace(World(NoFault), v, p, Alias(vec[v].data.buffer, i), TRUE),
              "Insert(v[i])", v, v, p, i)

DoErase(v, p, f) ==
    /\ May("Erase", f) /\ Defined /\ vec[v].live
    /\ p < vec[v].size
    /\ Commit(Erase(World(f), v, p), "Erase", v, v, p, 0)

DoPopBack(v) ==
    /\ Defined /\ vec[v].live
    /\ vec[v].size > 0
    /\ Commit(PopBack(World(NoFault), v), "PopBack", v, v, 0, 0)

DoDtor(v) ==
    /\ Defined /\ vec[v].live
    /\ Commit(Vector_Dtor(World(NoFault), v), "~Vector", v, v, 0, 0)

\* The operations on one vector that can fail, under the fault f.
Fallible(f) ==
    \/ \E v \in obs.vecs : \E n \in 0..Room(v) : DoSize(v, n, f)
    \/ \E v, r \in obs.vecs : DoCopyAssign(v, r, f)
    \/ \E v \in obs.vecs : \E n \in 0..Room(v) : DoReserve(v, n, f)
    \/ \E v \in obs.vecs : \E n \in 0..Room(v) : DoResize(v, n, f)
    \/ \E v \in obs.vecs, x \in Vals, thr \in Thrown(f) : DoPushBack(v, x, thr, f)
    \/ \E v \in obs.vecs, x \in Vals : DoEmplaceBack(v, x, f)
    \/ \E v \in obs.vecs, p \in 0..MaxCap, x \in Vals : DoEmplace(v, p, x, f)
    \/ \E v \in obs.vecs, p \in 0..MaxCap, x \in Vals, thr \in Thrown(f) :
          DoInsert(v, p, x, thr, f)
    \/ \E v \in obs.vecs, p \in 0..MaxCap : DoErase(v, p, f)

\* Those that cannot: the noexcept ones and the default constructor.
Noexcept ==
    \/ \E v \in obs.vecs : DoDefault(v)
    \/ \E v, r \in obs.vecs : DoMoveAssign(v, r)
    \/ \E v, o \in obs.vecs : DoSwap(v, o)
    \/ \E v \in obs.vecs : DoPopBack(v)
    \/ \E v \in obs.vecs : DoDtor(v)

\* The constructors that make one vector from another.
FromOther(f) ==
    \/ \E v, o \in obs.vecs : DoCopy(v, o, f)
    \/ \E v, o \in obs.vecs : f = NoFault /\ DoMove(v, o)

\* Every public operation of Vector.
Next == Noexcept \/ \E f \in Faults : (Fallible(f) \/ FromOther(f))

Spec == Init /\ [][Next]_vars

\* Vector when no operation fails.
SpecOK == InitFor(Types, VecIds, {}, {}, FALSE) /\ [][Next]_vars

\* A program that uses a single vector.
NextOne == Noexcept \/ \E f \in Faults : Fallible(f)

\* ------------------------------------------------------- RawMemory actions
\* RawMemory objects of their own, as a client of the class may hold them.
CommitRaw(w, r2, op, r, o, n) ==
    /\ heap' = w.heap
    /\ raw' = r2
    /\ bad' = w.bad
    /\ last' = IF op \notin obs.watch THEN NoOp
               ELSE [NoOp EXCEPT !.op = op, !.v = r, !.o = o, !.n = n, !.failed = w.exc]
    /\ UNCHANGED <<T, vec, obs, pushOnly>>

Owner(m) == [live |-> TRUE, m |-> m]

NoOwner == [live |-> FALSE, m |-> RawMemory_Default]

RawDefault(r) ==
    /\ Defined /\ ~raw[r].live
    /\ CommitRaw(World(NoFault), [raw EXCEPT ![r] = Owner(RawMemory_Default)],
                 "RawMemory", r, r, 0)

RawCapacity(r, n, f) ==
    /\ May("RawMemory(n)", f) /\ Defined /\ ~raw[r].live
    /\ LET w == Allocate(World(f), n)
       IN  CommitRaw(w, IF w.exc THEN raw
                        ELSE [raw EXCEPT ![r] = Owner(RawMemory_Capacity(World(f), n))],
                     "RawMemory(n)", r, r, n)

RawMove(r, o) ==
    /\ Defined /\ ~raw[r].live /\ raw[o].live
    /\ LET d == RawMemory_Move(raw[o].m)
       IN  CommitRaw(World(NoFault),
                     [raw EXCEPT ![r] = Owner(d[1]), ![o] = Owner(d[2])],
                     "RawMemory(&&)", r, o, 0)

\* operator=(RawMemory&& rhs): lines 28-32.
RawMoveAssign(r, o) ==
    /\ Defined /\ raw[r].live /\ raw[o].live
    /\ LET d == RawMemory_MoveAssign(raw[r].m, raw[o].m)
       IN  IF r = o
           THEN CommitRaw(World(NoFault), raw, "RawMemory::operator=(&&)", r, o, 0)
           ELSE CommitRaw(Deallocate(World(NoFault), raw[r].m.buffer),
                          [raw EXCEPT ![r] = Owner(d[1]), ![o] = Owner(d[2])],
                          "RawMemory::operator=(&&)", r, o, 0)

RawSwap(r, o) ==
    /\ Defined /\ raw[r].live /\ raw[o].live
    /\ LET d == RawMemory_Swap(raw[r].m, raw[o].m)
       IN  CommitRaw(World(NoFault),
                     IF r = o THEN raw
                     ELSE [raw EXCEPT ![r] = Owner(d[1]), ![o] = Owner(d[2])],
                     "RawMemory::Swap", r, o, 0)

\* ~RawMemory()
RawDtor(r) ==
    /\ Defined /\ raw[r].live
    /\ CommitRaw(Deallocate(World(NoFault), raw[r].m.buffer),
                 [raw EXCEPT ![r] = NoOwner], "~RawMemory", r, r, 0)

\* Every operation of RawMemory.
NextRaw ==
    \/ \E r \in RawIds : RawDefault(r)
    \/ \E r \in RawIds, n \in 0..MaxRaw, f \in Faults : RawCapacity(r, n, f)
    \/ \E r, o \in RawIds : RawMove(r, o)
    \/ \E r, o \in RawIds : RawMoveAssign(r, o)
    \/ \E r, o \in RawIds : RawSwap(r, o)
    \/ \E r \in RawIds : RawDtor(r)

\* RawMemory does nothing with T but take its size.
SpecRaw ==
    InitFor({[nothrow_move |-> TRUE, copyable |-> TRUE]}, {}, RawOpNames, RawOpNames, FALSE)
        /\ [][NextRaw]_vars

\* ------------------------------------------------------- specifications
\* An element type that is copyable and whose move constructor may throw:
\* the relocation rule copies it.
CopyRelocated == {[nothrow_move |-> FALSE, copyable |-> TRUE]}

\* The values a call of Emplace is tried with under the fault f. A call
\* that fails leaves no new element, and no step of Emplace looks at the
\* value it inserts, so one value stands for all in the failing calls.
Tried(f) == IF f = NoFault THEN Vals ELSE {MaxVal}

\* A program that uses a single vector and inserts with Emplace alone:
\* PushBack, EmplaceBack and Insert are calls of it.
NextEmplace ==
    \/ \E v \in obs.vecs : DoDefault(v)
    \/ \E v \in obs.vecs : DoPopBack(v)
    \/ \E v \in obs.vecs : DoDtor(v)
    \/ \E f \in Faults :
          \/ \E v \in obs.vecs : \E n \in 0..Room(v) : DoSize(v, n, f)
          \/ \E v \in obs.vecs : \E n \in 0..Room(v) : DoReserve(v, n, f)
          \/ \E v \in obs.vecs : \E n \in 0..Room(v) : DoResize(v, n, f)
          \/ \E v \in obs.vecs, p \in 0..MaxCap, x \in Tried(f) : DoEmplace(v, p, x, f)
          \/ \E v \in obs.vecs, p \in 0..MaxCap : DoErase(v, p, f)

\* One vector of a copy-relocated type, whose Reserve and Emplace may fail.
SpecRealloc ==
    InitFor(CopyRelocated, {"a"}, {}, {"Reserve", "Emplace"}, FALSE)
        /\ [][NextEmplace]_vars

\* One vector of any element type, whose Reserve and Emplace may fail.
SpecRelocate ==
    InitFor(Types, {"a"}, {}, {"Reserve", "Emplace"}, FALSE) /\ [][NextEmplace]_vars

\* One vector, no operation failing; insertions and erasures are recorded.
SpecOne == InitFor(Types, {"a"}, {"Emplace", "Erase"}, {}, TRUE) /\ [][NextOne]_vars

\* The element types that can be copied. When no operation fails, the runs
\* of a move-only type are the runs of the copyable type with a noexcept move
\* constructor in which nothing is copied.
Copyable == {t \in Types : t.copyable}

\* Two vectors of a copyable type, no operation failing; the constructions
\* of one vector from another are recorded.
SpecTwo ==
    InitFor(Copyable, VecIds, {"Vector(const&)", "Vector(&&)"}, {}, FALSE) /\ [][Next]_vars

\* One vector, whose Resize may fail; Reserve and Resize are recorded.
SpecSize == InitFor(Types, {"a"}, {"Reserve", "Resize"}, {"Resize"}, FALSE) /\ [][NextOne]_vars

\* A program that builds its vectors with the constructors, PushBack,
\* PopBack and Resize alone, and assigns them to one another: these reach
\* every size, capacity and content the other operations do.
NextAssign ==
    \/ Noexcept
    \/ \E f \in Faults :
          \/ FromOther(f)
          \/ \E v \in obs.vecs : \E n \in 0..Room(v) : DoSize(v, n, f)
          \/ \E v \in obs.vecs : \E n \in 0..Room(v) : DoResize(v, n, f)
          \/ \E v \in obs.vecs, x \in Vals, thr \in Thrown(f) : DoPushBack(v, x, thr, f)
          \/ \E v, r \in obs.vecs : DoCopyAssign(v, r, f)

\* Two vectors of a copyable type, no operation failing; the copy
\* assignments are recorded.
SpecAssign ==
    InitFor(Copyable, VecIds, {"operator=(const&)"}, {}, FALSE) /\ [][NextAssign]_vars

\* The same, the move assignments being recorded.
SpecMoveAssign ==
    InitFor(Copyable, VecIds, {"operator=(&&)"}, {}, FALSE) /\ [][NextAssign]_vars

\* The fault of a call during which operator new has no memory to give.
OutOfMemory == [fuel |-> 0, oom |-> TRUE]

\* A program whose only failures are allocation failures.
NextOom == Noexcept \/ \E f \in {NoFault, OutOfMemory} : (Fallible(f) \/ FromOther(f))

\* Two vectors of a copyable element type; the operations that allocate a
\* block for a vector that exists may run out of memory.
Allocating == Inserts \cup {"Reserve", "Resize", "operator=(const&)"}

SpecOom == InitFor(CopyRelocated, VecIds, {}, Allocating, FALSE) /\ [][NextOom]_vars

\* Two vectors of a copyable element type, whose copy assignment may fail.
SpecCopyFail ==
    InitFor(Copyable, VecIds, {}, {"operator=(const&)"}, FALSE) /\ [][NextAssign]_vars

\* Vector when no operation fails, with the destructor's work recorded.
SpecLife == InitFor(Types, VecIds, {"~Vector"}, {}, FALSE) /\ [][Next]_vars

\* A program that also inserts elements of a vector into the vector itself.
NextSelf ==
    \/ Noexcept
    \/ Fallible(NoFault)
    \/ \E v \in obs.vecs, i \in 0..MaxCap : DoPushBackSelf(v, i)
    \/ \E v \in obs.vecs, p \in 0..MaxCap, i \in 0..MaxCap : DoInsertSelf(v, p, i)

\* One vector of a copyable element type, no operation failing.
SpecSelf == InitFor(Copyable, {"a"}, {"Emplace(v[i])"}, {}, FALSE) /\ [][NextSelf]_vars

\* ---------------------------------------------------------------- views
\* The values of the slots [from, to) of vector v's storage.
Slots(v, from, to) ==
    [i \in 1..(to - from) |-> heap[vec[v].data.buffer].slots[from + i]]

\* The sequence a vector holds.
Elems(v) == IF vec[v].size = 0 THEN << >> ELSE Slots(v, 0, vec[v].size)

\* What a client can see of a vector: size, capacity and element values.
View(v) == [live |-> vec[v].live, size |-> vec[v].size,
            capacity |-> vec[v].data.capacity, elems |-> Elems(v)]

InsertAt(s, p, x) == SubSeq(s, 1, p) \o <<x>> \o SubSeq(s, p + 1, Len(s))

RemoveAt(s, p) == SubSeq(s, 1, p) \o SubSeq(s, p + 2, Len(s))

IsPow2(n) == \E k \in 0..(MaxCap + 1) : n = 2 ^ k

\* The storage of a live vector is well formed: a block of `capacity` slots
\* (none when capacity is 0), live in [0, size), raw in [size, capacity).
WellFormed(v) ==
    LET d == vec[v].data
    IN  /\ 0 <= vec[v].size /\ vec[v].size <= d.capacity
        /\ IF d.capacity = 0 THEN d.buffer = nullptr
           ELSE /\ d.buffer \in Blocks
                /\ heap[d.buffer].alloc
                /\ Len(heap[d.buffer].slots) = d.capacity
                /\ \A i \in 1..d.capacity :
                      (heap[d.buffer].slots[i] # Uninit) <=> (i <= vec[v].size)

\* ---------------------------------------------------------------- claims

\* C1: in every state reached by public Vector operations none of which
\* fails, every live vector has 0 <= size <= capacity, live elements in
\* every slot of [0, size) and raw memory in every slot of [size, capacity).
C1_SizeCapacityInvariant == \A v \in VecIds : vec[v].live => WellFormed(v)

C1_Witness ==
    /\ vec["a"].live /\ vec["b"].live
    /\ vec["a"].size = 2 /\ vec["a"].data.capacity = 3
    /\ vec["b"].size = 1 /\ vec["b"].data.capacity = 1

\* C2: for a copy-relocated element type, a Reserve or an insertion at
\* size = capacity that fails leaves the vector's size, capacity, storage
\* block and every slot of that block as they were.
C2_FailedReallocation(v) ==
    /\ last'.failed
    /\ \/ last'.op = "Reserve"
       \/ last'.op = "Emplace" /\ vec[v].size = vec[v].data.capacity

C2_StrongGuarantee ==
    [][\A v \in VecIds :
          (last'.v = v /\ C2_FailedReallocation(v)) =>
              /\ vec'[v] = vec[v]
              /\ vec[v].data.buffer # nullptr =>
                    heap'[vec[v].data.buffer] = heap[vec[v].data.buffer]]_vars

C2_Witness ==
    /\ last.op = "Emplace" /\ last.failed
    /\ vec["a"].size = 2 /\ vec["a"].data.capacity = 2

\* C3: when an element construction fails during a reallocation, no
\* element constructed in the new storage is leaked or destroyed twice, and
\* the old storage is untouched.
C3_NoLeakOnFailedReallocation ==
    [][\A v \in VecIds :
          (last'.v = v /\ C2_FailedReallocation(v)) =>
              /\ bad' = {}
              /\ vec[v].data.buffer # nullptr =>
                    heap'[vec[v].data.buffer] = heap[vec[v].data.buffer]]_vars

\* C4: after a RawMemory is the source of a move construction or of a move
\* assignment to another object, the source holds no block and reports
\* capacity 0, and the destination holds the source's former block and capacity.
C4_MovedFromIsEmpty ==
    [][(last'.op \in {"RawMemory(&&)", "RawMemory::operator=(&&)"} /\ last'.v # last'.o) =>
          /\ raw'[last'.o].m = [buffer |-> nullptr, capacity |-> 0]
          /\ raw'[last'.v].m = raw[last'.o].m]_vars

\* C5: no two live RawMemory objects hold the same non-null block, no block
\* is released twice, and once every owner is destroyed no block is left
\* allocated.
C5_ExclusiveOwnership ==
    /\ \A r, o \in RawIds :
          (r # o /\ raw[r].live /\ raw[o].live /\ raw[r].m.buffer # nullptr) =>
              raw[r].m.buffer # raw[o].m.buffer
    /\ "double_free" \notin bad
    /\ (\A r \in RawIds : ~raw[r].live) => (\A b \in Blocks : ~heap[b].alloc)

\* C6: a successful PushBack/EmplaceBack/Emplace/Insert leaves capacity
\* unchanged when size < capacity and makes it max(1, 2 * size) when
\* size = capacity; a default-constructed vector that was only pushed to
\* has capacity 0 or the least power of two not below its size, and
\* reallocates only at size 0 or a power of two.
C6_Inserted(v) == last'.op = "Emplace" /\ last'.v = v /\ ~last'.failed

C6_GrowthPolicy ==
    /\ [](\A v \in pushOnly :
            \/ vec[v].size = 0 /\ vec[v].data.capacity = 0
            \/ /\ IsPow2(vec[v].data.capacity)
               /\ vec[v].data.capacity < 2 * vec[v].size
               /\ vec[v].size <= vec[v].data.capacity)
    /\ [][\A v \in VecIds : C6_Inserted(v) =>
            /\ vec'[v].data.capacity =
                  IF vec[v].size < vec[v].data.capacity THEN vec[v].data.capacity
                  ELSE IF 2 * vec[v].size > 1 THEN 2 * vec[v].size ELSE 1
            /\ (vec[v].size < vec[v].data.capacity) =>
                  vec'[v].data.buffer = vec[v].data.buffer
            /\ (v \in pushOnly' /\ vec'[v].data.buffer # vec[v].data.buffer) =>
                  (vec[v].size = 0 \/ IsPow2(vec[v].size))]_vars

C6_Witness ==
    /\ "a" \in pushOnly /\ last.op = "Emplace"
    /\ vec["a"].size = 3 /\ vec["a"].data.capacity = 4

\* C7: a successful Emplace/Insert of x at index p turns the sequence into
\* old[0..p) ++ [x] ++ old[p..size), a size larger by one, and returns an
\* iterator to index p of the current storage, on both paths.
C7_InsertResult ==
    [][\A v \in VecIds : C6_Inserted(v) =>
          /\ Elems(v)' = InsertAt(Elems(v), last'.n, last'.x)
          /\ vec'[v].size = vec[v].size + 1
          /\ last'.ret = <<vec'[v].data.buffer, last'.n>>]_vars

\* In the middle, without reallocation: one element destroyed (the temporary).
C7_Witness ==
    /\ last.op = "Emplace" /\ last.n = 1 /\ last.ndtor = 1
    /\ vec["a"].size = 4 /\ Elems("a")[1] # Elems("a")[3]

\* C8: Erase at index p turns the sequence into old[0..p) ++ old[p+1..size),
\* a size smaller by one, destroys exactly one element, the one in the
\* vacated last slot, keeps capacity and storage block, and returns an
\* iterator to index p.
C8_EraseResult ==
    [][\A v \in VecIds : (last'.op = "Erase" /\ last'.v = v /\ ~last'.failed) =>
          /\ Elems(v)' = RemoveAt(Elems(v), last'.n)
          /\ vec'[v].size = vec[v].size - 1
          /\ last'.ndtor = 1 /\ last'.nctor = 0
          /\ heap'[vec[v].data.buffer].slots[vec[v].size] = Uninit
          /\ vec'[v].data = vec[v].data
          /\ last'.ret = <<vec[v].data.buffer, last'.n>>]_vars

C8_Witness ==
    /\ last.op = "Erase" /\ last.n = 1
    /\ vec["a"].size = 3 /\ Elems("a")[1] # Elems("a")[2]

\* C9: a vector copy-constructed from `other` has other's size, a capacity
\* of exactly that size, other's element values in order, and a block of its
\* own; an operation on one vector leaves what the other holds unchanged.
C9_DeepCopy ==
    [][/\ \A v, o \in VecIds : (last'.op = "Vector(const&)" /\ last'.v = v /\ last'.o = o) =>
            /\ vec'[v].live
            /\ vec'[v].size = vec[o].size
            /\ vec'[v].data.capacity = vec[o].size
            /\ Elems(v)' = Elems(o)
            /\ View(o)' = View(o)
            /\ vec'[v].data.buffer # nullptr =>
                  vec'[v].data.buffer # vec'[o].data.buffer
       /\ last'.op = "none" => \E u \in VecIds : View(u)' = View(u)]_vars

C9_Witness ==
    /\ last.op = "Vector(const&)"
    /\ vec[last.v].size = 1 /\ vec[last.o].data.capacity = 3
    /\ Elems(last.v)[1] \in Vals

\* C10: a vector move-constructed from `other` holds other's former block,
\* size and elements and no element is constructed or destroyed; `other` is
\* left with size 0 and capacity 0; every vector stays well formed under any
\* further operation, nothing is leaked or destroyed twice, and once all
\* vectors are destroyed no block is left allocated.
C10_MoveConstruct ==
    /\ [](/\ bad = {}
          /\ \A v \in VecIds : vec[v].live => WellFormed(v)
          /\ (\A v \in VecIds : ~vec[v].live) => (\A b \in Blocks : ~heap[b].alloc))
    /\ [][\A v, o \in VecIds : (last'.op = "Vector(&&)" /\ last'.v = v /\ last'.o = o) =>
            /\ vec'[v] = [live |-> TRUE, size |-> vec[o].size, data |-> vec[o].data]
            /\ vec'[o] = [live |-> TRUE, size |-> 0,
                          data |-> [buffer |-> nullptr, capacity |-> 0]]
            /\ heap' = heap
            /\ last'.nctor = 0 /\ last'.ndtor = 0]_vars

C10_Witness ==
    /\ last.op = "Vector(&&)"
    /\ vec[last.v].size = 2 /\ vec[last.v].data.capacity = 3
    /\ vec[last.o].live /\ vec[last.o].size = 0

\* C11: Reserve(c) never changes size or element values; with c <= capacity
\* it changes nothing at all and constructs and destroys no element; with
\* c > capacity the capacity becomes exactly c, the elements are relocated
\* in order into a new block, and each original element is destroyed once
\* before the old block is released.
C11_ReserveFrame ==
    [][\A v \in VecIds :
          (last'.op = "Reserve" /\ last'.v = v /\ ~last'.failed) =>
              /\ vec'[v].size = vec[v].size
              /\ Elems(v)' = Elems(v)
              /\ IF last'.n <= vec[v].data.capacity
                 THEN /\ vec' = vec
                      /\ heap' = heap
                      /\ last'.nctor = 0 /\ last'.ndtor = 0
                 ELSE /\ vec'[v].data.capacity = last'.n
                      /\ vec'[v].data.buffer # vec[v].data.buffer
                      /\ WellFormed(v)'
                      /\ last'.nctor = vec[v].size /\ last'.ndtor = vec[v].size
                      /\ bad' = {}
                      /\ vec[v].data.buffer # nullptr =>
                            ~heap'[vec[v].data.buffer].alloc]_vars

C11_Witness ==
    /\ last.op = "Reserve" /\ ~last.failed /\ last.n = 3
    /\ vec["a"].size = 2 /\ vec["a"].data.capacity = 3
    /\ last.nctor = 2 /\ last.ndtor = 2

\* C12: a Resize(n) that succeeds sets size to n and keeps the elements
\* below min(old size, n); shrinking destroys exactly the elements of
\* [n, old size) and keeps capacity and block; growing makes the capacity
\* max(old capacity, n) and value-constructs exactly the n - old size
\* elements of [old size, n); a Resize that fails has not written size.
C12_ResizeResult ==
    [][\A v \in VecIds :
          (last'.op = "Resize" /\ last'.v = v) =>
              IF last'.failed THEN vec'[v].size = vec[v].size
              ELSE LET n   == last'.n
                       old == vec[v].size
                       cap == vec[v].data.capacity
                       m   == Min(old, n)
                       relocated == IF n > cap THEN old ELSE 0
                   IN  /\ vec'[v].size = n
                       /\ WellFormed(v)'
                       /\ SubSeq(Elems(v)', 1, m) = SubSeq(Elems(v), 1, m)
                       /\ IF n <= old
                          THEN /\ vec'[v].data = vec[v].data
                               /\ last'.nctor = 0 /\ last'.ndtor = old - n
                               /\ \A b \in Blocks : b # vec[v].data.buffer =>
                                     heap'[b] = heap[b]
                          ELSE /\ vec'[v].data.capacity = (IF n > cap THEN n ELSE cap)
                               /\ \A i \in (old + 1)..n : Elems(v)'[i] = Default
                               /\ last'.nctor = relocated + (n - old)
                               /\ last'.ndtor = relocated]_vars

C12_Witness ==
    /\ last.op = "Resize" /\ ~last.failed /\ last.n = 3
    /\ vec["a"].size = 3 /\ vec["a"].data.capacity = 3
    /\ last.nctor = 3 /\ last.ndtor = 1
    /\ Elems("a")[1] \in Vals

\* C13: a copy assignment a = rhs that succeeds leaves a with rhs's size and
\* element values and rhs unchanged, and changes nothing when a is rhs; if
\* rhs.size exceeds a's capacity, a gets a new block of capacity exactly
\* rhs.size and its old elements are destroyed once; otherwise a keeps its
\* capacity and block, and only the trailing elements are destroyed (rhs
\* smaller) or copy-constructed (rhs larger).
C13_CopyAssign ==
    [][\A v, r \in VecIds :
          (last'.op = "operator=(const&)" /\ last'.v = v /\ last'.o = r
              /\ ~last'.failed) =>
              IF v = r
              THEN vec' = vec /\ heap' = heap /\ last'.nctor = 0 /\ last'.ndtor = 0
              ELSE LET sz  == vec[v].size
                       rs  == vec[r].size
                       old == vec[v].data
                   IN  /\ vec'[v].size = rs
                       /\ Elems(v)' = Elems(r)
                       /\ WellFormed(v)'
                       /\ bad' = {}
                       /\ vec'[r] = vec[r]
                       /\ vec[r].data.buffer # nullptr =>
                             heap'[vec[r].data.buffer] = heap[vec[r].data.buffer]
                       /\ IF rs > old.capacity
                          THEN /\ vec'[v].data.capacity = rs
                               /\ vec'[v].data.buffer # old.buffer
                               /\ old.buffer # nullptr => ~heap'[old.buffer].alloc
                               /\ last'.nctor = rs /\ last'.ndtor = sz
                          ELSE /\ vec'[v].data = old
                               /\ last'.nctor = (IF rs > sz THEN rs - sz ELSE 0)
                               /\ last'.ndtor = (IF sz > rs THEN sz - rs ELSE 0)]_vars

C13_Witness ==
    /\ last.op = "operator=(const&)" /\ ~last.failed /\ last.v # last.o
    /\ vec[last.v].size = 2 /\ vec[last.v].data.capacity = 2
    /\ last.nctor = 2 /\ last.ndtor = 1
    /\ Elems(last.v)[1] # Elems(last.v)[2]

\* C14: a move assignment a = std::move(b) exchanges the two vectors'
\* blocks, capacities and sizes, so that b holds a's former contents, and
\* constructs, moves and destroys no element; self move assignment changes
\* nothing; a's former elements are destroyed once, with b.
C14_MoveAssignSwaps ==
    /\ [](/\ bad = {}
          /\ (\A v \in VecIds : ~vec[v].live) => (\A b \in Blocks : heap[b].slots = << >>))
    /\ [][\A v, r \in VecIds :
            (last'.op = "operator=(&&)" /\ last'.v = v /\ last'.o = r) =>
                /\ heap' = heap
                /\ last'.nctor = 0 /\ last'.ndtor = 0
                /\ IF v = r THEN vec' = vec
                   ELSE vec'[v] = vec[r] /\ vec'[r] = vec[v]]_vars

C14_Witness ==
    /\ last.op = "operator=(&&)" /\ last.v # last.o
    /\ vec[last.v].size = 2 /\ vec[last.v].data.capacity = 3
    /\ vec[last.o].size = 1 /\ vec[last.o].data.capacity = 1

\* C15: an insertion on the non-reallocating path (size < capacity) that
\* fails leaves the vector valid and destructible without a leak: size <=
\* capacity, every slot of [0, size) live, and no live element in a slot of
\* [size, capacity), where the destructor would not destroy it.
C15_EasyEmplaceBasicGuarantee ==
    [][\A v \in VecIds :
          (last'.op = "Emplace" /\ last'.v = v /\ last'.failed
              /\ vec[v].size < vec[v].data.capacity) =>
              WellFormed(v)']_vars

\* C16 as claimed: for every element type, a Reserve or a reallocating
\* Emplace that fails leaves the vector's size, capacity and block and
\* every element of the original storage as they were, none moved-from.
C16_OriginalUntouched ==
    [][\A v \in VecIds :
          (last'.v = v /\ C2_FailedReallocation(v)) =>
              /\ vec'[v] = vec[v]
              /\ vec[v].data.buffer # nullptr =>
                    heap'[vec[v].data.buffer] = heap[vec[v].data.buffer]]_vars

\* C16 as amended: a Reserve or a reallocating Emplace that fails leaves
\* the vector's size, capacity and block as they were and its storage well
\* formed; if the element type is copyable or its move constructor cannot
\* throw, every element of the original storage is as it was; if it is
\* neither, both relocation sites move, and each element is as it was or
\* moved-from.
C16_RelocationRule ==
    [][\A v \in VecIds :
          (last'.v = v /\ C2_FailedReallocation(v)) =>
              LET b == vec[v].data.buffer
              IN  /\ vec'[v] = vec[v]
                  /\ b # nullptr =>
                        IF T.copyable \/ T.nothrow_move
                        THEN heap'[b] = heap[b]
                        ELSE /\ heap'[b].alloc
                             /\ \A i \in 1..vec[v].data.capacity :
                                   heap'[b].slots[i] \in {heap[b].slots[i], Moved}
                             /\ \A i \in 1..vec[v].data.capacity :
                                   (heap'[b].slots[i] = Uninit) <=> (heap[b].slots[i] = Uninit)]_vars

C16_Witness ==
    /\ last.op = "Reserve" /\ last.failed
    /\ ~T.copyable /\ ~T.nothrow_move
    /\ vec["a"].size = 3 /\ vec["a"].data.capacity = 3
    /\ Elems("a")[1] = Moved /\ Elems("a")[2] = Moved /\ Elems("a")[3] \in Vals

\* C17: a call of Reserve, of Resize, of an insertion at size = capacity or
\* of a copy assignment from a longer vector that fails because no block can
\* be allocated leaves every vector's size, capacity and block, and every
\* block's elements, exactly as they were before the call.
C17_AllocationFailure ==
    [][\A v \in VecIds :
          (/\ last'.failed /\ last'.v = v
           /\ \/ last'.op \in {"Reserve", "Resize"}
              \/ last'.op = "Emplace" /\ vec[v].size = vec[v].data.capacity
              \/ last'.op = "operator=(const&)"
                    /\ vec[last'.o].size > vec[v].data.capacity) =>
              /\ vec' = vec
              /\ heap' = heap
              /\ bad' = bad]_vars

C17_Witness ==
    /\ last.failed /\ last.op = "operator=(const&)" /\ last.v = "a" /\ last.o = "b"
    /\ vec["a"].size = 1 /\ vec["a"].data.capacity = 1 /\ Elems("a")[1] \in Vals
    /\ vec["b"].size = 2

\* C18: a copy assignment a = rhs that fails leaves a with the size it had,
\* with a live element in every slot of [0, size) and none in a slot of
\* [size, capacity), and leaves rhs as it was; if rhs was longer than a's
\* capacity, a's capacity, block and element values are as they were too.
C18_CopyAssignFailure ==
    [][\A v, r \in VecIds :
          (last'.failed /\ last'.op = "operator=(const&)"
              /\ last'.v = v /\ last'.o = r) =>
              /\ vec'[v].size = vec[v].size
              /\ WellFormed(v)'
              /\ View(r)' = View(r)
              /\ vec'[r] = vec[r]
              /\ vec[r].size > vec[v].data.capacity =>
                    /\ vec'[v] = vec[v]
                    /\ View(v)' = View(v)]_vars

\* A failed assignment from a longer vector that fits a's capacity: the
\* first element is assigned, the construction of the second throws.
C18_Witness ==
    /\ last.failed /\ last.op = "operator=(const&)" /\ last.v = "a" /\ last.o = "b"
    /\ vec["a"].size = 1 /\ vec["a"].data.capacity = 2
    /\ vec["b"].size = 2
    /\ Elems("a")[1] = Elems("b")[1] /\ Elems("a")[1] \in Vals

\* C19: while no operation fails, no element is destroyed twice or left
\* alive in a block that is released or overwritten by a construction, and
\* no block is released twice; every allocated block is the storage of
\* exactly one live vector; the destructor destroys each of the vector's
\* elements once and then releases its block; so once every vector is
\* destroyed no block is allocated and no element is alive.
C19_DestroyedExactlyOnce ==
    /\ [](/\ bad = {}
          /\ \A b \in Blocks :
                IF heap[b].alloc
                THEN Cardinality({v \in VecIds : vec[v].live /\ vec[v].data.buffer = b}) = 1
                ELSE LiveSlots(heap[b]) = {}
          /\ (\A v \in VecIds : ~vec[v].live) =>
                (\A b \in Blocks : ~heap[b].alloc /\ LiveSlots(heap[b]) = {}))
    /\ [][\A v \in VecIds :
            (last'.op = "~Vector" /\ last'.v = v) =>
                /\ last'.ndtor = vec[v].size /\ last'.nctor = 0
                /\ ~vec'[v].live
                /\ \A b \in Blocks :
                      IF b = vec[v].data.buffer THEN ~heap'[b].alloc
                      ELSE heap'[b] = heap[b]]_vars

\* Both vectors are destroyed, the last one with two elements.
C19_Witness ==
    /\ last.op = "~Vector" /\ last.ndtor = 2
    /\ \A v \in VecIds : ~vec[v].live
    /\ \A b \in Blocks : ~heap[b].alloc

\* C20: an insertion at position p whose argument is a reference to the
\* element v[i] of the same vector inserts the value v[i] had before the
\* call, whether the vector has room (size < capacity) or reallocates, and
\* keeps the other elements in order.
C20_SelfInsert ==
    [][\A v \in VecIds :
          (last'.op = "Emplace(v[i])" /\ last'.v = v) =>
              LET p == last'.n
                  i == last'.x
              IN  /\ vec'[v].size = vec[v].size + 1
                  /\ Elems(v)'[p + 1] = Elems(v)[i + 1]
                  /\ Elems(v)' = InsertAt(Elems(v), p, Elems(v)[i + 1])]_vars

\* An insertion without reallocation at the front of <<0, 1, _>>, of the
\* element v[1], which the shift moves.
C20_Witness ==
    /\ last.op = "Emplace(v[i])" /\ last.n = 0 /\ last.x = 1
    /\ vec["a"].size = 3 /\ vec["a"].data.capacity = 3
    /\ Elems("a") = <<1, 0, 1>>

====
